---- MODULE Spec2Model ----
(***************************************************************************)
(* A2AProxyClient (appworld_a2a_runner/a2a_client.py): the JSON-RPC        *)
(* transport, the response interpreter and the send_prompt polling loop,   *)
(* modelled as a state machine over one client session.                    *)
(*                                                                         *)
(* Time is counted in ticks.  JSON values are encoded as records whose     *)
(* fields are always present; a key that the JSON object does not have     *)
(* holds the sentinel NoKey (strings) or the tag "absent" (containers).    *)
(***************************************************************************)
EXTENDS Integers, Sequences, FiniteSets, TLC

\* ------------------------------------------------------------------ bounds
MaxTimeout == 2        \* timeout_s ranges over 0..MaxTimeout ticks
MaxPollInterval == 2   \* poll_interval_s ranges over 0..MaxPollInterval ticks
MaxRpcTime == 1        \* one HTTP exchange lasts 0..MaxRpcTime ticks
MaxPolls == 3          \* tasks/get calls modelled per send_prompt call
MaxCalls == 2          \* send_prompt calls modelled per client session

\* ------------------------------------------------------- JSON encoding
NoKey == "<absent>"

NoScalar == [tag |-> "absent", v |-> ""]
StrVal(s) == [tag |-> "str", v |-> s]
NumVal(s) == [tag |-> "num", v |-> s]
NullVal == [tag |-> "null", v |-> ""]

\* Python str(x) of a JSON scalar: a string is itself, a number its decimal
\* form, null is the text None.
Str(x) == IF x.tag = "null" THEN "None" ELSE x.v

TextPart(s) == [dict |-> TRUE, kind |-> "text", text |-> s]
DataPart == [dict |-> TRUE, kind |-> "data", text |-> NoKey]
NoParts == [tag |-> "absent", items |-> << >>]
PartList(ps) == [tag |-> "list", items |-> ps]
NotAList == [tag |-> "other", items |-> << >>]

NoStatus == [tag |-> "absent", state |-> NoKey, error |-> NoKey]
NullStatus == [tag |-> "null", state |-> NoKey, error |-> NoKey]
Status(s, e) == [tag |-> "dict", state |-> s, error |-> e]

NoArtifacts == [tag |-> "absent", items |-> << >>]
ArtifactList(as) == [tag |-> "list", items |-> as]
Artifact(parts) == [dict |-> TRUE, parts |-> parts]

NoMessage == [tag |-> "absent", parts |-> NoParts, content |-> NoScalar]
MessageVal(parts, content) == [tag |-> "dict", parts |-> parts, content |-> content]

NoResult == [tag |-> "absent", v |-> "", message |-> NoMessage, text |-> NoScalar, content |-> NoScalar]
StrResult(s) == [tag |-> "str", v |-> s, message |-> NoMessage, text |-> NoScalar, content |-> NoScalar]
DictResult(m, t, c) == [tag |-> "dict", v |-> "", message |-> m, text |-> t, content |-> c]

\* A JSON object as it arrives in the result field of a JSON-RPC response:
\* the union of the keys that send_prompt and the interpreter look at.
Obj(kind, id, parts, content, status, artifacts, result) ==
  [tag |-> "dict", kind |-> kind, id |-> id, parts |-> parts, content |-> content,
   status |-> status, artifacts |-> artifacts, result |-> result]
\* A result that is valid JSON but not an object (null).
NullObj ==
  [tag |-> "null", kind |-> NoKey, id |-> NoKey, parts |-> NoParts, content |-> NoScalar,
   status |-> NoStatus, artifacts |-> NoArtifacts, result |-> NoResult]
NoObj ==
  [tag |-> "none", kind |-> NoKey, id |-> NoKey, parts |-> NoParts, content |-> NoScalar,
   status |-> NoStatus, artifacts |-> NoArtifacts, result |-> NoResult]

\* ------------------------------------------------- exceptions, outcomes
NoExc == [kind |-> "none", msg |-> "", num |-> 0]
Exc(kind, msg, num) == [kind |-> kind, msg |-> msg, num |-> num]

NoOutcome == [how |-> "none", text |-> "", exc |-> NoExc, value |-> NoObj]
Return(text) == [how |-> "return", text |-> text, exc |-> NoExc, value |-> NoObj]
Raise(e) == [how |-> "raise", text |-> "", exc |-> e, value |-> NoObj]
\* _jsonrpc_call returns a JSON value, not a text
ReturnValue(v) == [how |-> "return", text |-> "", exc |-> NoExc, value |-> v]

\* ------------------------------------------------------ HTTP exchange
\* What session.post comes back with: a network failure (no response), or
\* a response with a status code and a body.
NoBody == [json |-> FALSE, hasError |-> FALSE, error |-> "", hasResult |-> FALSE, result |-> NoObj]
Body(hasError, error, hasResult, result) ==
  [json |-> TRUE, hasError |-> hasError, error |-> error, hasResult |-> hasResult, result |-> result]
NetFailure(kind) == [net |-> kind, status |-> 0, body |-> NoBody]
Response(status, body) == [net |-> "ok", status |-> status, body |-> body]
NoReply == [net |-> "none", status |-> 0, body |-> NoBody]

\* requests.Response.raise_for_status raises HTTPError for a 4xx or a 5xx
\* status and for no other status.
raise_for_status(status) == status >= 400 /\ status < 600

\* _jsonrpc_call with the result looked up before the error check
jsonrpc_call_result_first(reply) ==
  IF reply.net # "ok" THEN Raise(Exc(reply.net, "", 0))
  ELSE IF raise_for_status(reply.status) THEN Raise(Exc("HTTPError", "", reply.status))
  ELSE IF ~reply.body.json THEN Raise(Exc("JSONDecodeError", "", 0))
  ELSE IF reply.body.hasResult THEN ReturnValue(reply.body.result)
  ELSE IF reply.body.hasError
       THEN Raise(Exc("RuntimeError", "JSON-RPC error: " \o reply.body.error, 0))
  ELSE Raise(Exc("KeyError", "result", 0))

\* _jsonrpc_call: post, raise_for_status, json(), error check, data["result"].
_jsonrpc_call(reply) ==
  IF reply.net # "ok" THEN Raise(Exc(reply.net, "", 0))
  ELSE IF raise_for_status(reply.status) THEN Raise(Exc("HTTPError", "", reply.status))
  ELSE IF ~reply.body.json THEN Raise(Exc("JSONDecodeError", "", 0))
  ELSE IF reply.body.hasError
       THEN Raise(Exc("RuntimeError", "JSON-RPC error: " \o reply.body.error, 0))
  ELSE IF ~reply.body.hasResult THEN Raise(Exc("KeyError", "result", 0))
  ELSE ReturnValue(reply.body.result)

\* ------------------------------------------------ response interpreter
RECURSIVE Join(_)
\* "\n".join(text_parts)
Join(ts) ==
  IF Len(ts) = 0 THEN ""
  ELSE IF Len(ts) = 1 THEN ts[1]
  ELSE ts[1] \o "\n" \o Join(Tail(ts))

RECURSIVE TextParts(_)
\* the loop over parts: the text of every dict part of kind "text" whose
\* text is present and not empty, in order
TextParts(items) ==
  IF Len(items) = 0 THEN << >>
  ELSE LET part == Head(items)
           text == IF part.text = NoKey THEN "" ELSE part.text
       IN  IF part.dict /\ part.kind = "text" /\ text # ""
           THEN << text >> \o TextParts(Tail(items))
           ELSE TextParts(Tail(items))

\* _extract_text_from_message with the content fallback tried first
extract_text_from_message_content_first(message) ==
  IF message.tag # "dict"
  THEN Raise(Exc("TypeError", "argument of type 'NoneType' is not iterable", 0))
  ELSE IF message.content.tag # "absent"
  THEN Return(Str(message.content))
  ELSE IF message.parts.tag = "list" /\ Len(TextParts(message.parts.items)) > 0
  THEN Return(Join(TextParts(message.parts.items)))
  ELSE Raise(Exc("ValueError", "Could not extract text from message", 0))

\* _extract_text_from_message
_extract_text_from_message(message) ==
  IF message.tag # "dict"
  THEN Raise(Exc("TypeError", "argument of type 'NoneType' is not iterable", 0))
  ELSE IF message.parts.tag = "list" /\ Len(TextParts(message.parts.items)) > 0
  THEN Return(Join(TextParts(message.parts.items)))
  ELSE IF message.content.tag # "absent"
  THEN Return(Str(message.content))
  ELSE Raise(Exc("ValueError", "Could not extract text from message", 0))

\* the artifacts branch of _extract_text_from_task: the text parts of the
\* first artifact, << >> when the branch yields nothing
ArtifactTexts(task) ==
  IF /\ task.artifacts.tag = "list"
     /\ Len(task.artifacts.items) > 0
     /\ task.artifacts.items[1].dict
     /\ task.artifacts.items[1].parts.tag = "list"
  THEN TextParts(task.artifacts.items[1].parts.items)
  ELSE << >>

\* _extract_text_from_task with the artifacts looked at before the state
extract_text_from_task_artifacts_first(task) ==
  IF task.status.tag = "null"
  THEN Raise(Exc("AttributeError", "'NoneType' object has no attribute 'get'", 0))
  ELSE IF Len(ArtifactTexts(task)) > 0 THEN Return(Join(ArtifactTexts(task)))
  ELSE IF task.status.state = "failed"
  THEN Raise(Exc("ValueError",
                 "Task failed: " \o (IF task.status.error = NoKey THEN "Unknown error"
                                     ELSE task.status.error), 0))
  ELSE IF task.status.state = "canceled" THEN Raise(Exc("ValueError", "Task was canceled", 0))
  ELSE IF task.status.state = "rejected" THEN Raise(Exc("ValueError", "Task was rejected", 0))
  ELSE IF task.result.tag = "dict" /\ task.result.message.tag # "absent"
  THEN _extract_text_from_message(task.result.message)
  ELSE IF task.result.tag = "dict" /\ task.result.text.tag # "absent"
  THEN Return(Str(task.result.text))
  ELSE IF task.result.tag = "dict" /\ task.result.content.tag # "absent"
  THEN Return(Str(task.result.content))
  ELSE IF task.result.tag = "str" THEN Return(task.result.v)
  ELSE Raise(Exc("ValueError", "Could not extract text from task result", 0))

\* _extract_text_from_task
_extract_text_from_task(task) ==
  IF task.status.tag = "null"
  THEN Raise(Exc("AttributeError", "'NoneType' object has no attribute 'get'", 0))
  ELSE IF task.status.state = "failed"
  THEN Raise(Exc("ValueError",
                 "Task failed: " \o (IF task.status.error = NoKey THEN "Unknown error"
                                     ELSE task.status.error), 0))
  ELSE IF task.status.state = "canceled" THEN Raise(Exc("ValueError", "Task was canceled", 0))
  ELSE IF task.status.state = "rejected" THEN Raise(Exc("ValueError", "Task was rejected", 0))
  ELSE IF Len(ArtifactTexts(task)) > 0 THEN Return(Join(ArtifactTexts(task)))
  ELSE IF task.result.tag = "dict" /\ task.result.message.tag # "absent"
  THEN _extract_text_from_message(task.result.message)
  ELSE IF task.result.tag = "dict" /\ task.result.text.tag # "absent"
  THEN Return(Str(task.result.text))
  ELSE IF task.result.tag = "dict" /\ task.result.content.tag # "absent"
  THEN Return(Str(task.result.content))
  ELSE IF task.result.tag = "str" THEN Return(task.result.v)
  ELSE Raise(Exc("ValueError", "Could not extract text from task result", 0))

\* ------------------------------------------------------------- inputs
None == -1   \* timeout_s argument left at its default

TaskStates ==
  {NoKey, "submitted", "working", "input-required", "unknown",
   "completed", "failed", "canceled", "rejected"}

\* message/send results: direct messages, tasks, and a null result
MessageResults ==
  { Obj(k, NoKey, p, c, NoStatus, NoArtifacts, NoResult) :
      k \in {NoKey, "message"},
      p \in {NoParts, PartList(<< TextPart("hi") >>), PartList(<< TextPart(""), DataPart >>)},
      c \in {NoScalar, StrVal("c")} }
SubmittedTasks ==
  { Obj("task", id, NoParts, NoScalar, Status("submitted", NoKey), NoArtifacts, NoResult) :
      id \in {NoKey, "t1"} }
SendResults == MessageResults \cup SubmittedTasks \cup {NullObj}

\* tasks/get results: a task in any state, with or without extractable text
TaskStatuses ==
  {NoStatus, NullStatus, Status("failed", "boom")} \cup { Status(s, NoKey) : s \in TaskStates }
TaskPayloads ==
  { << NoArtifacts, NoResult >>,
    << ArtifactList(<< Artifact(PartList(<< TextPart("a"), TextPart("b") >>)) >>), NoResult >>,
    << NoArtifacts, StrResult("r") >> }
PollResults ==
  { Obj("task", "t1", NoParts, NoScalar, st, NoArtifacts, NoResult) : st \in TaskStatuses }
  \cup
  { Obj("task", "t1", NoParts, NoScalar, st, pl[1], pl[2]) :
      st \in {NoStatus, Status("working", NoKey), Status("completed", NoKey),
              Status("failed", "boom"), Status("rejected", NoKey)},
      pl \in TaskPayloads }
  \cup {NullObj}

ErrorPayload == "{'code': -32000}"

\* every reply the server side can give to a request whose well-formed
\* results are drawn from rs
Replies(rs) ==
  {NetFailure("ConnectionError"), NetFailure("Timeout")}
  \cup {Response(404, NoBody), Response(500, Body(FALSE, "", TRUE, NullObj))}
  \cup {Response(200, NoBody),
        Response(200, Body(TRUE, ErrorPayload, FALSE, NoObj)),
        Response(200, Body(TRUE, ErrorPayload, TRUE, NullObj)),
        Response(200, Body(FALSE, "", FALSE, NoObj))}
  \cup { Response(200, Body(FALSE, "", TRUE, r)) : r \in rs }

\* -------------------------------------------------------------- state
VARIABLES
  timeout_seconds,   \* config.timeout_seconds
  pc,                \* position of the caller / of send_prompt
  call,              \* send_prompt calls started on this client
  timeout_s,         \* send_prompt: timeout_s after defaulting
  poll_interval_s,   \* send_prompt: poll_interval_s
  now,               \* time.time(), in ticks since send_prompt was entered
  result,            \* send_prompt: result of message/send
  task_id,           \* send_prompt: task_id
  deadline,          \* send_prompt: deadline
  request_id,        \* send_prompt: request_id
  task,              \* send_prompt: task, the latest tasks/get result
  reply,             \* the HTTP exchange of the latest RPC call
  raised,            \* the exception raised inside the try block, if any
  outcome,           \* what send_prompt (or _jsonrpc_call) hands to its caller
  sent,              \* the JSON-RPC requests posted by this send_prompt call, in order
  earlier,           \* the JSON-RPC requests this client posted in earlier calls
  lastAct,           \* latest of message/send, tasks/get, sleep in this call
  checked,           \* latest evaluation of the loop condition not yet followed
                     \* by a tasks/get: "passed", "failed", or "none"
  interpreter        \* the interpreter entry point send_prompt has invoked:
                     \* "message", "task", or "none"

VARIABLES
  base_url,          \* config.base_url
  endpoint_path,     \* config.endpoint_path
  card,              \* the HTTP exchange of the agent-card fetch
  rpc_url,           \* self.rpc_url
  fetches            \* agent-card fetches made by this client

VARIABLES
  abort_on_failure,  \* config.appworld.abort_on_failure
  run_pc,            \* position inside Runner.run
  dataset,           \* what iterate_tasks still has to yield, in order
  results,           \* summary.results, in the order add_result appended them
  run_outcome,       \* what Runner.run hands to its caller
  enumerated,        \* the task ids iterate_tasks has yielded, in order
  current,           \* the task process_task is working on
  caught,            \* the exception process_task's handler caught
  task_result,       \* the TaskResult process_task is returning
  recorded,          \* the record_success / record_failure calls made, in order
  inflight,          \* the in-flight gauge
  printed            \* print_summary has run

clientVars ==
  << timeout_seconds, pc, call, timeout_s, poll_interval_s, now, result, task_id,
     deadline, request_id, task, reply, raised, outcome, sent, earlier, lastAct,
     checked, interpreter >>
urlVars == << base_url, endpoint_path, card, rpc_url, fetches >>
taskVars == << enumerated, current, caught, task_result, recorded, inflight >>
runVars == << abort_on_failure, run_pc, dataset, results, run_outcome, taskVars, printed >>

vars == << clientVars, urlVars, runVars >>

\* ------------------------------------------------- endpoint resolver
\* A URL or a path is a sequence of characters.  The scheme and host of a
\* URL, and a query string, are one token each: nothing below looks inside
\* them.
Slash == "/"
Space == " "
Authorities == {"http://h", "http://g"}
Query == "?q"

\* a strip that removes one trailing character only
rstrip_once(str, ch) ==
  IF Len(str) > 0 /\ str[Len(str)] = ch THEN SubSeq(str, 1, Len(str) - 1) ELSE str

RECURSIVE rstrip(_, _)
\* str.rstrip(ch)
rstrip(str, ch) ==
  IF Len(str) > 0 /\ str[Len(str)] = ch THEN rstrip(SubSeq(str, 1, Len(str) - 1), ch) ELSE str

RECURSIVE lstrip(_, _)
\* str.lstrip(ch)
lstrip(str, ch) ==
  IF Len(str) > 0 /\ str[1] = ch THEN lstrip(Tail(str), ch) ELSE str

\* str.strip(): whitespace off both ends
strip(str) == rstrip(lstrip(str, Space), Space)

\* str.startswith(ch)
startswith(str, ch) == Len(str) > 0 /\ str[1] = ch

RECURSIVE UpToQuery(_)
UpToQuery(str) ==
  IF Len(str) = 0 \/ str[1] = Query THEN << >> ELSE << str[1] >> \o UpToQuery(Tail(str))

\* urlparse(url).path: what follows the scheme and host, up to the query
urlparse_path(url) ==
  IF Len(url) > 0 /\ url[1] \in Authorities THEN UpToQuery(Tail(url)) ELSE UpToQuery(url)

\* _normalize_endpoint_path with no whitespace stripping
normalize_endpoint_path_no_strip ==
  LET p0 == IF endpoint_path = << >> THEN << Slash >> ELSE endpoint_path
  IN  IF ~startswith(p0, Slash) THEN << Slash >> \o p0 ELSE p0

\* _normalize_endpoint_path; an endpoint_path of None or "" is << >>
_normalize_endpoint_path ==
  LET p0 == IF endpoint_path = << >> THEN << Slash >> ELSE endpoint_path
      p1 == strip(p0)
      p2 == IF p1 = << >> THEN << Slash >> ELSE p1
  IN  IF ~startswith(p2, Slash) THEN << Slash >> \o p2 ELSE p2

\* _build_rpc_url
_build_rpc_url(base) == rstrip(base, Slash) \o _normalize_endpoint_path

\* the agent-card exchange: a network failure, or a response whose body is
\* unparsable, a JSON value that is no object, or an object whose url key
\* is absent, null, a number or a string
NoUrl == [tag |-> "absent", v |-> << >>]
NullUrl == [tag |-> "null", v |-> << >>]
NumUrl == [tag |-> "num", v |-> << >>]
StrUrl(u) == [tag |-> "str", v |-> u]
NoCard == [net |-> "none", status |-> 0, shape |-> "none", url |-> NoUrl]
CardFailure(kind) == [net |-> kind, status |-> 0, shape |-> "none", url |-> NoUrl]
CardResponse(status, shape, url) == [net |-> "ok", status |-> status, shape |-> shape, url |-> url]

ReturnUrl(u) == [how |-> "return", exc |-> NoExc, url |-> u]
RaiseUrl(e) == [how |-> "raise", exc |-> e, url |-> << >>]

\* _get_agent_card: get, raise_for_status, json(); a RequestException is
\* logged and re-raised
_get_agent_card(c) ==
  IF c.net # "ok" THEN RaiseUrl(Exc(c.net, "", 0))
  ELSE IF raise_for_status(c.status) THEN RaiseUrl(Exc("HTTPError", "", c.status))
  ELSE IF c.shape = "unparsable" THEN RaiseUrl(Exc("JSONDecodeError", "", 0))
  ELSE ReturnUrl(<< >>)

\* lines 88-103: the try block of _discover_rpc_url
discover_try(c) ==
  IF _get_agent_card(c).how = "raise" THEN _get_agent_card(c)
  ELSE IF c.shape # "dict"
  THEN RaiseUrl(Exc("AttributeError", "'list' object has no attribute 'get'", 0))
  ELSE IF c.url.tag \in {"absent", "null"} \/ (c.url.tag = "str" /\ c.url.v = << >>)
  THEN ReturnUrl(_build_rpc_url(base_url))
  ELSE IF c.url.tag = "num"
  THEN RaiseUrl(Exc("AttributeError", "'int' object has no attribute 'decode'", 0))
  ELSE IF urlparse_path(c.url.v) # << >> /\ urlparse_path(c.url.v) # << Slash >>
  THEN ReturnUrl(rstrip(c.url.v, Slash))
  ELSE ReturnUrl(_build_rpc_url(c.url.v))

\* a handler that catches request failures only
except_RequestException(e) ==
  e.kind \in {"ConnectionError", "Timeout", "HTTPError", "JSONDecodeError"}

\* line 104: except Exception
except_Exception(e) == e.kind # "none"

\* _discover_rpc_url
_discover_rpc_url(c) ==
  IF discover_try(c).how = "raise" /\ except_Exception(discover_try(c).exc)
  THEN ReturnUrl(_build_rpc_url(base_url))
  ELSE discover_try(c)

\* a URL built again from the configuration for each request
post_url_rebuilt == _build_rpc_url(base_url)

\* line 139: the URL a JSON-RPC request is posted to
post_url == rpc_url

\* a deadline counted from the moment message/send was started
deadline_from_entry(t) == now + timeout_s

\* a deadline two timeouts away
deadline_doubled(t) == t + 2 * timeout_s

\* line 294: deadline = time.time() + timeout_s
deadline_at(t) == t + timeout_s

\* --------------------------------------------------------- Runner.run
\* what run has for its caller: nothing yet, a value its try block or its
\* except handler is returning while the finally clause still has to run,
\* a returned exit code, or an exception
NoExit == [how |-> "none", code |-> 0, exc |-> NoExc]
Returning(code) == [how |-> "returning", code |-> code, exc |-> NoExc]
ReturnCode(code) == [how |-> "return", code |-> code, exc |-> NoExc]
RaiseExit(e) == [how |-> "raise", code |-> 0, exc |-> e]

\* runner.py:220-223: 0 if any recorded result succeeded, else 1
exit_code(rs) == IF \E k \in 1..Len(rs) : rs[k].success THEN 0 ELSE 1

\* the task process_task works on, and the TaskResult it returns
NoTask == [task_id |-> 0, event |-> "none"]
NoTaskResult == [task_id |-> 0, success |-> FALSE, error |-> ""]
TaskResult(id, success, error) == [task_id |-> id, success |-> success, error |-> error]

\* an abort test that ignores the configuration
should_abort_always(success) == ~success

\* runner.py:211: if not result.success and self.config.appworld.abort_on_failure
should_abort(success) == ~success /\ abort_on_failure

\* a task_span that leaves the gauge as it is on exit
gauge_on_exit_kept(g) == g + 0

\* otel.py:212-213: self.inflight_gauge.add(-1)
gauge_on_exit(g) == g - 1

\* runner.py:228: self.otel.shutdown() on a class that defines no shutdown
\* (otel.py:26-316): the attribute lookup raises
otel_shutdown ==
  Exc("AttributeError", "'OTELInstrumentation' object has no attribute 'shutdown'", 0)

\* line 281: the request id of message/send
send_request_id == 1

\* polling that starts again at the id of message/send
first_poll_id_reused == send_request_id

\* line 295: the request id of the first tasks/get
first_poll_id == 2

\* a request id that is never incremented
next_request_id_stuck(id) == id

\* line 303: request_id += 1
next_request_id(id) == id + 1

\* a loop condition that still polls at the deadline itself
loop_test_inclusive(t, dl) == t <= dl

\* line 297: the loop condition time.time() < deadline
loop_test(t, dl) == t < dl

\* a terminal set that misses rejected
TerminalStates_no_rejected == {"completed", "failed", "canceled"}

\* a terminal set that takes input-required for terminal
TerminalStates_input_required ==
  {"completed", "failed", "canceled", "rejected", "input-required"}

\* line 310: the states on which the loop returns
TerminalStates == {"completed", "failed", "canceled", "rejected"}

\* except clauses that wrap what they caught in a generic error
except_clauses_wrap(e) == Raise(Exc("Exception", "A2A request failed: " \o e.msg, 0))

\* lines 317-325: the three except clauses, each logs and re-raises
except_clauses(e) ==
  IF e.kind = "Timeout" THEN Raise(e)
  ELSE IF e.kind \in {"ConnectionError", "HTTPError", "JSONDecodeError"} THEN Raise(e)
  ELSE Raise(e)

\* what leaves send_prompt when the try block ends with o
leave(o) == IF o.how = "raise" THEN except_clauses(o.exc) ELSE o

\* a branch of the try block: what it ends with (NoOutcome when the code
\* goes on) and the interpreter entry point it invoked
Branch(out, entry) == [out |-> out, entry |-> entry]

\* a kind test that takes only kind = "message" for a direct message
after_send_kind_message(r) ==
  IF r.how = "raise" THEN Branch(r, "none")
  ELSE IF r.value.tag # "dict"
  THEN Branch(Raise(Exc("AttributeError", "'NoneType' object has no attribute 'get'", 0)), "none")
  ELSE IF r.value.kind = "message" THEN Branch(_extract_text_from_message(r.value), "message")
  ELSE IF r.value.id = NoKey THEN Branch(Raise(Exc("KeyError", "id", 0)), "none")
  ELSE Branch(NoOutcome, "none")

\* lines 285-292, applied to what _jsonrpc_call gave for message/send;
\* NoOutcome when the code goes on to poll
after_send(r) ==
  IF r.how = "raise" THEN Branch(r, "none")
  ELSE IF r.value.tag # "dict"
  THEN Branch(Raise(Exc("AttributeError", "'NoneType' object has no attribute 'get'", 0)), "none")
  ELSE IF r.value.kind # "task" THEN Branch(_extract_text_from_message(r.value), "message")
  ELSE IF r.value.id = NoKey THEN Branch(Raise(Exc("KeyError", "id", 0)), "none")
  ELSE Branch(NoOutcome, "none")

\* a polling step that swallows a failed tasks/get and polls again
after_get_retry(r) ==
  IF r.how = "raise" THEN Branch(NoOutcome, "none")
  ELSE IF r.value.tag # "dict" \/ r.value.status.tag = "null"
  THEN Branch(Raise(Exc("AttributeError", "'NoneType' object has no attribute 'get'", 0)), "none")
  ELSE IF r.value.status.state \in {"completed", "failed", "canceled", "rejected"}
  THEN Branch(_extract_text_from_task(r.value), "task")
  ELSE Branch(NoOutcome, "none")

\* lines 307-311, applied to what _jsonrpc_call gave for tasks/get;
\* NoOutcome when the code goes on to sleep
after_get(r) ==
  IF r.how = "raise" THEN Branch(r, "none")
  ELSE IF r.value.tag # "dict" \/ r.value.status.tag = "null"
  THEN Branch(Raise(Exc("AttributeError", "'NoneType' object has no attribute 'get'", 0)), "none")
  ELSE IF r.value.status.state \in TerminalStates
  THEN Branch(_extract_text_from_task(r.value), "task")
  ELSE Branch(NoOutcome, "none")

Init ==
  /\ timeout_seconds = MaxTimeout
  /\ pc = "new"
  /\ call = 0
  /\ timeout_s = 0
  /\ poll_interval_s = 0
  /\ now = 0
  /\ result = NoObj
  /\ task_id = NoKey
  /\ deadline = 0
  /\ request_id = 0
  /\ task = NoObj
  /\ reply = NoReply
  /\ raised = NoExc
  /\ outcome = NoOutcome
  /\ sent = << >>
  /\ earlier = {}
  /\ lastAct = "none"
  /\ checked = "none"
  /\ interpreter = "none"
  /\ base_url = << "http://h", Slash >>
  /\ endpoint_path = << Slash, "v" >>
  /\ card = NoCard
  /\ rpc_url = << >>
  /\ fetches = 0
  /\ abort_on_failure = FALSE
  /\ run_pc = "none"
  /\ dataset = << >>
  /\ results = << >>
  /\ run_outcome = NoExit
  /\ enumerated = << >>
  /\ current = NoTask
  /\ caught = NoExc
  /\ task_result = NoTaskResult
  /\ recorded = << >>
  /\ inflight = 0
  /\ printed = FALSE

\* lines 21-42: the constructor; c is the agent-card exchange
__init__(c) ==
  /\ pc = "new"
  /\ card' = c
  /\ fetches' = fetches + 1
  /\ IF _discover_rpc_url(c).how = "return"
     THEN rpc_url' = _discover_rpc_url(c).url /\ pc' = "idle"
     ELSE rpc_url' = rpc_url /\ pc' = "init_failed"
  /\ UNCHANGED << timeout_seconds, call, timeout_s, poll_interval_s, now, result, task_id,
                  deadline, request_id, task, reply, raised, outcome, sent, earlier, lastAct,
                  checked, interpreter, base_url, endpoint_path, runVars >>

\* lines 264-265: the caller enters send_prompt
send_prompt(t, p) ==
  /\ pc = "idle"
  /\ call < MaxCalls
  /\ pc' = "send"
  /\ call' = call + 1
  /\ timeout_s' = IF t = None THEN timeout_seconds ELSE t
  /\ poll_interval_s' = p
  /\ now' = 0
  /\ result' = NoObj
  /\ task_id' = NoKey
  /\ deadline' = 0
  /\ request_id' = 0
  /\ task' = NoObj
  /\ reply' = NoReply
  /\ raised' = NoExc
  /\ outcome' = NoOutcome
  /\ lastAct' = "none"
  /\ checked' = "none"
  /\ interpreter' = "none"
  /\ earlier' = earlier \cup {sent[k] : k \in 1..Len(sent)}
  /\ sent' = << >>
  /\ UNCHANGED << timeout_seconds, urlVars, runVars >>

\* lines 278-295: message/send with request id 1, then either the direct
\* message is interpreted or polling is set up
message_send(rep, d) ==
  /\ pc = "send"
  /\ LET r == _jsonrpc_call(rep)
         b == after_send(r)
         o == b.out
     IN  /\ sent' = Append(sent, [method |-> "message/send", id |-> send_request_id,
                                  url |-> post_url])
         /\ interpreter' = b.entry
         /\ now' = now + d
         /\ reply' = rep
         /\ result' = IF r.how = "return" THEN r.value ELSE NoObj
         /\ lastAct' = "send"
         /\ IF o = NoOutcome
            THEN /\ task_id' = r.value.id
                 /\ deadline' = deadline_at(now')
                 /\ request_id' = first_poll_id
                 /\ pc' = "loop"
                 /\ UNCHANGED << raised, outcome >>
            ELSE /\ raised' = o.exc
                 /\ outcome' = leave(o)
                 /\ pc' = "done"
                 /\ UNCHANGED << task_id, deadline, request_id >>
  /\ UNCHANGED << timeout_seconds, call, timeout_s, poll_interval_s, task, checked, earlier,
                  urlVars, runVars >>

\* line 297 and line 315: the loop condition, and the timeout when it fails
loop_condition ==
  /\ pc = "loop"
  /\ IF loop_test(now, deadline)
     THEN /\ checked' = "passed"
          /\ pc' = "get"
          /\ UNCHANGED << raised, outcome >>
     ELSE /\ checked' = "failed"
          /\ raised' = Exc("TimeoutError", task_id, timeout_s)
          /\ outcome' = leave(Raise(raised'))
          /\ pc' = "done"
  /\ UNCHANGED << timeout_seconds, call, timeout_s, poll_interval_s, now, result, task_id,
                  deadline, request_id, task, reply, sent, earlier, lastAct, interpreter,
                  urlVars, runVars >>

\* lines 298-311: one tasks/get and the decision taken on its result
tasks_get_capped(rep, d, cap) ==
  /\ pc = "get"
  /\ request_id - first_poll_id < cap
  /\ LET r == _jsonrpc_call(rep)
         b == after_get(r)
         o == b.out
     IN  /\ interpreter' = b.entry
         /\ sent' = Append(sent, [method |-> "tasks/get", id |-> request_id,
                                  url |-> post_url])
         /\ now' = now + d
         /\ reply' = rep
         /\ task' = IF r.how = "return" THEN r.value ELSE NoObj
         /\ request_id' = IF r.how = "return" THEN next_request_id(request_id) ELSE request_id
         /\ lastAct' = "get"
         /\ checked' = "none"
         /\ IF o = NoOutcome
            THEN /\ pc' = "sleep"
                 /\ UNCHANGED << raised, outcome >>
            ELSE /\ raised' = o.exc
                 /\ outcome' = leave(o)
                 /\ pc' = "done"
  /\ UNCHANGED << timeout_seconds, call, timeout_s, poll_interval_s, result, task_id,
                  deadline, earlier, urlVars, runVars >>

\* one tasks/get of a call explored up to MaxPolls polls
tasks_get(rep, d) == tasks_get_capped(rep, d, MaxPolls)

\* line 313: time.sleep(poll_interval_s)
sleep ==
  /\ pc = "sleep"
  /\ now' = now + poll_interval_s
  /\ lastAct' = "sleep"
  /\ pc' = "loop"
  /\ UNCHANGED << timeout_seconds, call, timeout_s, poll_interval_s, result, task_id,
                  deadline, request_id, task, reply, raised, outcome, sent, earlier, checked,
                  interpreter, urlVars, runVars >>

\* send_prompt has returned or raised; the caller has the outcome and may
\* call again on the same client
caller_resumes ==
  /\ pc = "done"
  /\ pc' = "idle"
  /\ UNCHANGED << timeout_seconds, call, timeout_s, poll_interval_s, now, result, task_id,
                  deadline, request_id, task, reply, raised, outcome, sent, earlier, lastAct,
                  checked, interpreter, urlVars, runVars >>

\* the agent-card endpoint of the modelled server: not reachable
FallbackCard == CardFailure("ConnectionError")

Next ==
  \/ __init__(FallbackCard)
  \/ \E t \in {None} \cup (0..MaxTimeout), p \in 0..MaxPollInterval : send_prompt(t, p)
  \/ \E rep \in Replies(SendResults), d \in 0..MaxRpcTime : message_send(rep, d)
  \/ loop_condition
  \/ \E rep \in Replies(PollResults), d \in 0..MaxRpcTime : tasks_get(rep, d)
  \/ sleep
  \/ caller_resumes

Spec == Init /\ [][Next]_vars

\* ------------------------------------- _jsonrpc_call on its own (SpecRpc)
RpcStatuses == {200, 201, 204, 299, 300, 304, 399, 400, 404, 499, 500, 503, 599}
RpcResults ==
  { NullObj,
    Obj(NoKey, NoKey, PartList(<< TextPart("hi") >>), NoScalar, NoStatus, NoArtifacts, NoResult),
    Obj("task", "t1", NoParts, NoScalar, Status("working", NoKey), NoArtifacts, NoResult) }
RpcBodies ==
  {NoBody, Body(FALSE, "", FALSE, NoObj), Body(TRUE, ErrorPayload, FALSE, NoObj)}
  \cup { Body(TRUE, ErrorPayload, TRUE, r) : r \in RpcResults }
  \cup { Body(FALSE, "", TRUE, r) : r \in RpcResults }
RpcReplies ==
  {NetFailure("ConnectionError"), NetFailure("Timeout")}
  \cup { Response(st, b) : st \in RpcStatuses, b \in RpcBodies }

InitRpc ==
  /\ timeout_seconds = 1
  /\ pc = "rpc"
  /\ call = 0
  /\ timeout_s = 0
  /\ poll_interval_s = 0
  /\ now = 0
  /\ result = NoObj
  /\ task_id = NoKey
  /\ deadline = 0
  /\ request_id = 0
  /\ task = NoObj
  /\ reply \in RpcReplies
  /\ raised = NoExc
  /\ outcome = NoOutcome
  /\ sent = << >>
  /\ earlier = {}
  /\ lastAct = "none"
  /\ checked = "none"
  /\ interpreter = "none"
  /\ base_url = << "http://h", Slash >>
  /\ endpoint_path = << Slash, "v" >>
  /\ card = NoCard
  /\ rpc_url = << >>
  /\ fetches = 0
  /\ abort_on_failure = FALSE
  /\ run_pc = "none"
  /\ dataset = << >>
  /\ results = << >>
  /\ run_outcome = NoExit
  /\ enumerated = << >>
  /\ current = NoTask
  /\ caught = NoExc
  /\ task_result = NoTaskResult
  /\ recorded = << >>
  /\ inflight = 0
  /\ printed = FALSE

\* one _jsonrpc_call whose HTTP exchange is reply
rpc_call ==
  /\ pc = "rpc"
  /\ outcome' = _jsonrpc_call(reply)
  /\ pc' = "rpc_done"
  /\ UNCHANGED << timeout_seconds, call, timeout_s, poll_interval_s, now, result, task_id,
                  deadline, request_id, task, reply, raised, sent, earlier, lastAct, checked,
                  interpreter, urlVars, runVars >>

NextRpc == rpc_call

SpecRpc == InitRpc /\ [][NextRpc]_vars

\* ------------------------------------------- the response interpreter
\* The two extraction functions on their own, each applied MaxRepeats times
\* to one input drawn from every shape the code distinguishes.
MaxParts == 3
MaxRepeats == 2

\* the state of everything but the interpreter's input and outcome
ClientAtRest ==
  /\ timeout_seconds = 1
  /\ call = 0
  /\ timeout_s = 0
  /\ poll_interval_s = 0
  /\ now = 0
  /\ task_id = NoKey
  /\ deadline = 0
  /\ request_id = 0
  /\ reply = NoReply
  /\ raised = NoExc
  /\ outcome = NoOutcome
  /\ sent = << >>
  /\ earlier = {}
  /\ lastAct = "none"
  /\ checked = "none"
  /\ interpreter = "none"
UrlAtRest ==
  /\ base_url = << "http://h", Slash >>
  /\ endpoint_path = << Slash, "v" >>
  /\ card = NoCard
  /\ rpc_url = << >>
  /\ fetches = 0
RunAtRest ==
  /\ abort_on_failure = FALSE
  /\ run_pc = "none"
  /\ dataset = << >>
  /\ results = << >>
  /\ run_outcome = NoExit
  /\ enumerated = << >>
  /\ current = NoTask
  /\ caught = NoExc
  /\ task_result = NoTaskResult
  /\ recorded = << >>
  /\ inflight = 0
  /\ printed = FALSE

NotADict == [dict |-> FALSE, kind |-> NoKey, text |-> NoKey]
TextPartNoText == [dict |-> TRUE, kind |-> "text", text |-> NoKey]
Parts == {TextPart("a"), TextPart("b"), TextPart(""), DataPart, NotADict, TextPartNoText}

RECURSIVE SeqsUpTo(_, _)
\* the sequences over S of length at most n
SeqsUpTo(S, n) ==
  IF n = 0 THEN {<< >>}
  ELSE SeqsUpTo(S, n - 1) \cup
       { Append(q, x) : q \in { r \in SeqsUpTo(S, n - 1) : Len(r) = n - 1 }, x \in S }

ExtractMessages ==
  { Obj("message", NoKey, p, c, NoStatus, NoArtifacts, NoResult) :
      p \in {NoParts, NotAList} \cup { PartList(q) : q \in SeqsUpTo(Parts, MaxParts) },
      c \in {NoScalar, StrVal("c"), NumVal("7"), NullVal} }

ExtractStatuses ==
  {NoStatus, Status("completed", NoKey), Status("failed", "boom"), Status("failed", NoKey),
   Status("canceled", NoKey), Status("rejected", NoKey)}
ExtractArtifacts ==
  {NoArtifacts, ArtifactList(<< >>),
   ArtifactList(<< Artifact(PartList(<< TextPart("a"), TextPart("b") >>)) >>),
   ArtifactList(<< Artifact(PartList(<< TextPart(""), DataPart >>)),
                   Artifact(PartList(<< TextPart("z") >>)) >>)}
ExtractResults ==
  {NoResult, StrResult("r"),
   DictResult(NoMessage, NoScalar, NoScalar),
   DictResult(NoMessage, StrVal("t"), StrVal("c")),
   DictResult(NoMessage, NoScalar, NumVal("7")),
   DictResult(MessageVal(PartList(<< TextPart("m") >>), NoScalar), StrVal("t"), NoScalar),
   DictResult(MessageVal(NoParts, StrVal("mc")), NoScalar, StrVal("c")),
   DictResult(MessageVal(NoParts, NoScalar), StrVal("t"), NoScalar),
   DictResult(MessageVal(PartList(<< TextPart("") >>), NoScalar), NoScalar, NoScalar)}
ExtractTasks ==
  { Obj("task", "t1", NoParts, NoScalar, st, a, r) :
      st \in ExtractStatuses, a \in ExtractArtifacts, r \in ExtractResults }

InitExtract ==
  /\ \/ pc = "message" /\ result \in ExtractMessages /\ task = NoObj
     \/ pc = "task" /\ task \in ExtractTasks /\ result = NoObj
  /\ ClientAtRest
  /\ UrlAtRest
  /\ RunAtRest

\* one application of _extract_text_from_message to the message in result
extract_from_message ==
  /\ pc = "message"
  /\ call < MaxRepeats
  /\ call' = call + 1
  /\ outcome' = _extract_text_from_message(result)
  /\ interpreter' = "message"
  /\ UNCHANGED << timeout_seconds, pc, timeout_s, poll_interval_s, now, result, task_id,
                  deadline, request_id, task, reply, raised, sent, earlier, lastAct, checked,
                  urlVars, runVars >>

\* one application of _extract_text_from_task to the task in task
extract_from_task ==
  /\ pc = "task"
  /\ call < MaxRepeats
  /\ call' = call + 1
  /\ outcome' = _extract_text_from_task(task)
  /\ interpreter' = "task"
  /\ UNCHANGED << timeout_seconds, pc, timeout_s, poll_interval_s, now, result, task_id,
                  deadline, request_id, task, reply, raised, sent, earlier, lastAct, checked,
                  urlVars, runVars >>

NextExtract == extract_from_message \/ extract_from_task

SpecExtract == InitExtract /\ [][NextExtract]_vars

\* ------------------------------------------------- one client, its URL
\* A client from construction through MaxCalls send_prompt calls, against
\* an agent-card endpoint that is not reachable or that names an endpoint
\* of its own.
SessionCards ==
  {FallbackCard, CardResponse(200, "dict", StrUrl(<< "http://g", Slash, "r" >>))}
SessionSendReplies ==
  {NetFailure("ConnectionError"),
   Response(200, Body(FALSE, "", TRUE,
                      Obj("message", NoKey, PartList(<< TextPart("hi") >>), NoScalar, NoStatus,
                          NoArtifacts, NoResult))),
   Response(200, Body(FALSE, "", TRUE,
                      Obj("task", "t1", NoParts, NoScalar, Status("submitted", NoKey),
                          NoArtifacts, NoResult)))}
SessionPollReplies ==
  {NetFailure("Timeout")} \cup
  { Response(200, Body(FALSE, "", TRUE,
                       Obj("task", "t1", NoParts, NoScalar, Status(st, NoKey), NoArtifacts,
                           StrResult("r")))) : st \in {"working", "completed"} }

NextSession ==
  \/ \E c \in SessionCards : __init__(c)
  \/ \E t \in {None} \cup (0..MaxTimeout), p \in 0..MaxPollInterval : send_prompt(t, p)
  \/ \E rep \in SessionSendReplies, d \in 0..MaxRpcTime : message_send(rep, d)
  \/ loop_condition
  \/ \E rep \in SessionPollReplies, d \in 0..MaxRpcTime : tasks_get(rep, d)
  \/ sleep
  \/ caller_resumes

SpecSession == Init /\ [][NextSession]_vars

\* ------------------------------------------------ polling against time
\* send_prompt against a server whose task never reaches a terminal state
\* and whose RPC calls take no time.  Time is counted in ticks of a tenth
\* of a second, so timeout = 1s is 10 and poll_interval = 0.1s is 1.
LongTimeout == 10
\* polls explored per call: more than any call with a poll interval of at
\* least one tick can make before its deadline
LongPolls == LongTimeout + 2

PendingTask == Obj("task", "t1", NoParts, NoScalar, Status("submitted", NoKey), NoArtifacts, NoResult)
PendingPolls ==
  { Response(200, Body(FALSE, "", TRUE,
                       Obj("task", "t1", NoParts, NoScalar, Status(st, NoKey), NoArtifacts, NoResult))) :
      st \in {"working", "input-required"} }

InitPoll ==
  /\ pc = "idle"
  /\ timeout_seconds = LongTimeout
  /\ call = 0
  /\ timeout_s = 0
  /\ poll_interval_s = 0
  /\ now = 0
  /\ result = NoObj
  /\ task_id = NoKey
  /\ deadline = 0
  /\ request_id = 0
  /\ task = NoObj
  /\ reply = NoReply
  /\ raised = NoExc
  /\ outcome = NoOutcome
  /\ sent = << >>
  /\ earlier = {}
  /\ lastAct = "none"
  /\ checked = "none"
  /\ interpreter = "none"
  /\ base_url = << "http://h", Slash >>
  /\ endpoint_path = << Slash, "v" >>
  /\ card = CardFailure("ConnectionError")
  /\ rpc_url = << "http://h", Slash, "v" >>
  /\ fetches = 1
  /\ RunAtRest

NextPoll ==
  \/ \E t \in {None} \cup (0..LongTimeout), p \in 1..MaxPollInterval : send_prompt(t, p)
  \/ message_send(Response(200, Body(FALSE, "", TRUE, PendingTask)), 0)
  \/ loop_condition
  \/ \E rep \in PendingPolls : tasks_get_capped(rep, 0, LongPolls)
  \/ sleep
  \/ caller_resumes

SpecPoll == InitPoll /\ [][NextPoll]_vars

\* -------------------------------------------------- endpoint resolution
\* The constructor on its own, for every configuration and every answer of
\* the agent-card endpoint.
MaxPathLen == 3

RECURSIVE Strings(_, _)
\* the strings over the characters S of length at most n
Strings(S, n) ==
  IF n = 0 THEN {<< >>}
  ELSE Strings(S, n - 1) \cup
       { Append(q, x) : q \in { r \in Strings(S, n - 1) : Len(r) = n - 1 }, x \in S }

BaseUrls ==
  {<< "http://h" >>, << "http://h", Slash >>, << "http://h", Slash, Slash >>,
   << "http://h", Slash, "a" >>, << "http://h", Slash, "a", Slash >>}
EndpointPaths == Strings({Slash, Space, "v"}, MaxPathLen)
\* service URLs: a host followed by nothing or by a path, with or without a
\* query; a path-only reference; the empty string
ServiceUrls ==
  { << "http://g" >> \o path \o q :
      path \in { r \in Strings({Slash, "r"}, MaxPathLen) : r = << >> \/ r[1] = Slash },
      q \in {<< >>, << Query >>} }
  \cup {<< Slash, "r" >>, << >>}
CardReplies ==
  {CardFailure("ConnectionError"), CardFailure("Timeout"),
   CardResponse(404, "dict", NoUrl), CardResponse(500, "unparsable", NoUrl),
   CardResponse(200, "unparsable", NoUrl), CardResponse(204, "unparsable", NoUrl),
   CardResponse(200, "list", NoUrl), CardResponse(200, "null", NoUrl)}
  \cup { CardResponse(200, "dict", u) : u \in {NoUrl, NullUrl, NumUrl} }
  \cup { CardResponse(200, "dict", StrUrl(u)) : u \in ServiceUrls }

InitUrl ==
  /\ pc = "new"
  /\ base_url \in BaseUrls
  /\ endpoint_path \in EndpointPaths
  /\ card = NoCard
  /\ rpc_url = << >>
  /\ fetches = 0
  /\ task = NoObj
  /\ result = NoObj
  /\ ClientAtRest
  /\ RunAtRest

NextUrl == \E c \in CardReplies : __init__(c)

SpecUrl == InitUrl /\ [][NextUrl]_vars

\* ------------------------------------------------------- the task loop
\* Runner.run over a dataset of up to MaxTasks tasks.  The dataset says
\* what iterate_tasks does when the loop asks it for the next task: it
\* yields the task, or it raises (the task cannot be loaded, or the state
\* of the task before it cannot be saved).
MaxTasks == 3
TaskEvents == {"task", "fatal"}
Datasets ==
  { [k \in 1..Len(q) |-> [task_id |-> k, event |-> q[k]]] : q \in SeqsUpTo(TaskEvents, MaxTasks) }
\* what send_prompt hands to process_task: a text, or one of its failures
SendOutcomes ==
  {Return("ok")} \cup
  { Raise(Exc(k, "", 0)) : k \in {"TimeoutError", "ConnectionError", "ValueError", "KeyError"} }
\* build_prompt failing: json.dumps on a supervisor it cannot serialize
BuildFailure == Exc("TypeError", "Object is not JSON serializable", 0)

InitRun ==
  /\ abort_on_failure \in BOOLEAN
  /\ run_pc = "start"
  /\ dataset \in Datasets
  /\ results = << >>
  /\ run_outcome = NoExit
  /\ enumerated = << >>
  /\ current = NoTask
  /\ caught = NoExc
  /\ task_result = NoTaskResult
  /\ recorded = << >>
  /\ inflight = 0
  /\ printed = FALSE
  /\ pc = "idle"
  /\ task = NoObj
  /\ result = NoObj
  /\ ClientAtRest
  /\ base_url = << "http://h", Slash >>
  /\ endpoint_path = << Slash, "v" >>
  /\ card = CardFailure("ConnectionError")
  /\ rpc_url = << "http://h", Slash, "v" >>
  /\ fetches = 1

\* runner.py:203, 115-120: self.initialize(); an exception goes to the
\* handler at 224-226, which returns 1
initialize(ok) ==
  /\ run_pc = "start"
  /\ IF ok
     THEN run_pc' = "loop" /\ run_outcome' = run_outcome
     ELSE run_pc' = "finally" /\ run_outcome' = Returning(1)
  /\ UNCHANGED << clientVars, urlVars, abort_on_failure, dataset, results, taskVars, printed >>

\* runner.py:206, appworld_adapter.py:124-140: the for loop takes the next
\* task from iterate_tasks; an exception raised there goes to the handler
\* at 224-226, which returns 1
next_task ==
  /\ run_pc = "loop"
  /\ dataset # << >>
  /\ dataset' = Tail(dataset)
  /\ IF Head(dataset).event = "fatal"
     THEN /\ run_pc' = "finally"
          /\ run_outcome' = Returning(1)
          /\ UNCHANGED << enumerated, current >>
     ELSE /\ enumerated' = Append(enumerated, Head(dataset).task_id)
          /\ current' = Head(dataset)
          /\ run_pc' = "task"
          /\ run_outcome' = run_outcome
  /\ UNCHANGED << clientVars, urlVars, abort_on_failure, results, caught, task_result,
                  recorded, inflight, printed >>

\* runner.py:137-142, otel.py:196-200: process_task enters task_span, which
\* adds one to the in-flight gauge
task_span_enter ==
  /\ run_pc = "task"
  /\ inflight' = inflight + 1
  /\ run_pc' = "build"
  /\ UNCHANGED << clientVars, urlVars, abort_on_failure, dataset, results, run_outcome,
                  enumerated, current, caught, task_result, recorded, printed >>

\* runner.py:145-147: build_prompt and record_prompt; an exception goes to
\* the handler at 177
build_prompt(ok) ==
  /\ run_pc = "build"
  /\ IF ok
     THEN run_pc' = "send" /\ caught' = caught
     ELSE run_pc' = "except" /\ caught' = BuildFailure
  /\ UNCHANGED << clientVars, urlVars, abort_on_failure, dataset, results, run_outcome,
                  enumerated, current, task_result, recorded, inflight, printed >>

\* runner.py:153-159: send_prompt comes back with o; an exception goes to
\* the handler at 177
a2a_send_prompt(o) ==
  /\ run_pc = "send"
  /\ IF o.how = "return"
     THEN run_pc' = "success" /\ caught' = caught
     ELSE run_pc' = "except" /\ caught' = o.exc
  /\ UNCHANGED << clientVars, urlVars, abort_on_failure, dataset, results, run_outcome,
                  enumerated, current, task_result, recorded, inflight, printed >>

\* runner.py:165-175, otel.py:276-286: record_success, then the TaskResult
\* to return
record_success ==
  /\ run_pc = "success"
  /\ recorded' = Append(recorded, [task_id |-> current.task_id, status |-> "success"])
  /\ task_result' = TaskResult(current.task_id, TRUE, "")
  /\ run_pc' = "exit"
  /\ UNCHANGED << clientVars, urlVars, abort_on_failure, dataset, results, run_outcome,
                  enumerated, current, caught, inflight, printed >>

\* runner.py:177-194, otel.py:288-316: the handler: record_failure, then the
\* TaskResult to return
record_failure ==
  /\ run_pc = "except"
  /\ recorded' = Append(recorded, [task_id |-> current.task_id, status |-> "failed"])
  /\ task_result' = TaskResult(current.task_id, FALSE, caught.kind \o ": " \o caught.msg)
  /\ run_pc' = "exit"
  /\ UNCHANGED << clientVars, urlVars, abort_on_failure, dataset, results, run_outcome,
                  enumerated, current, caught, inflight, printed >>

\* otel.py:210-216: the return leaves task_span through its finally clause
task_span_exit ==
  /\ run_pc = "exit"
  /\ inflight' = gauge_on_exit(inflight)
  /\ run_pc' = "add"
  /\ UNCHANGED << clientVars, urlVars, abort_on_failure, dataset, results, run_outcome,
                  enumerated, current, caught, task_result, recorded, printed >>

\* runner.py:122-194: Runner.process_task, step by step
process_task ==
  \/ task_span_enter
  \/ \E ok \in BOOLEAN : build_prompt(ok)
  \/ \E o \in SendOutcomes : a2a_send_prompt(o)
  \/ record_success
  \/ record_failure
  \/ task_span_exit

\* runner.py:208-213: add_result, then the abort test
add_result ==
  /\ run_pc = "add"
  /\ results' = Append(results, task_result)
  /\ run_pc' = IF should_abort(task_result.success) THEN "summary" ELSE "loop"
  /\ current' = NoTask
  /\ caught' = NoExc
  /\ task_result' = NoTaskResult
  /\ UNCHANGED << clientVars, urlVars, abort_on_failure, dataset, run_outcome, enumerated,
                  recorded, inflight, printed >>

\* the iterator is exhausted
loop_ends ==
  /\ run_pc = "loop"
  /\ dataset = << >>
  /\ run_pc' = "summary"
  /\ UNCHANGED << clientVars, urlVars, abort_on_failure, dataset, results, run_outcome,
                  taskVars, printed >>

\* runner.py:216-223: print the summary, return 0 or 1
print_summary ==
  /\ run_pc = "summary"
  /\ printed' = TRUE
  /\ run_outcome' = Returning(exit_code(results))
  /\ run_pc' = "finally"
  /\ UNCHANGED << clientVars, urlVars, abort_on_failure, dataset, results, taskVars >>

\* runner.py:227-228: the finally clause; an exception raised in it
\* replaces the value being returned
finally ==
  /\ run_pc = "finally"
  /\ run_outcome' = RaiseExit(otel_shutdown)
  /\ run_pc' = "finished"
  /\ UNCHANGED << clientVars, urlVars, abort_on_failure, dataset, results, taskVars, printed >>

NextRun ==
  \/ \E ok \in BOOLEAN : initialize(ok)
  \/ next_task
  \/ process_task
  \/ add_result
  \/ loop_ends
  \/ print_summary
  \/ finally

SpecRun == InitRun /\ [][NextRun]_vars

\* =================================================================== claims
Last(q) == q[Len(q)]
Returned == pc \in {"done", "idle"} /\ call >= 1
Polling == pc \in {"loop", "get", "sleep"}
\* the terminal states as the claims list them
ClaimTerminal == {"completed", "failed", "canceled", "rejected"}
\* the latest tasks/get came back with a task in a terminal state
TerminalObserved ==
  task.tag = "dict" /\ task.status.tag = "dict" /\ task.status.state \in ClaimTerminal
\* the latest tasks/get came back with a task whose state is any other
\* value, or whose status or state is missing
NonTerminalObserved ==
  /\ task.tag = "dict"
  /\ task.status.tag \in {"absent", "dict"}
  /\ task.status.state \notin ClaimTerminal
\* this step posts a request
Posts == Len(sent') > Len(sent)
\* this step posts a tasks/get
PostsGet == Len(sent') = Len(sent) + 1 /\ Last(sent').method = "tasks/get"
\* the latest RPC call failed: no response, an error status, an unparsable
\* body, an error field, or no result field
FailedReply ==
  \/ reply.net \in {"ConnectionError", "Timeout"}
  \/ /\ reply.net = "ok"
     /\ \/ reply.status >= 400
        \/ ~reply.body.json
        \/ reply.body.hasError
        \/ ~reply.body.hasResult
\* time passed since the deadline was set
Elapsed == now - (deadline - timeout_s)

\* C1: once a tasks/get response reports a terminal state, send_prompt has
\* ended with the interpreter's outcome for that response (never a timeout),
\* that outcome does not change, and no further request is posted.
C1_TerminalIsFinal ==
  /\ [](TerminalObserved =>
          /\ pc \in {"done", "idle"}
          /\ interpreter = "task"
          /\ outcome.how \in {"return", "raise"}
          /\ outcome.exc.kind # "TimeoutError")
  /\ [][TerminalObserved => ~Posts /\ (outcome' = outcome \/ pc' = "send")]_vars

C1_Witness ==
  /\ pc = "done"
  /\ TerminalObserved
  /\ Len(sent) >= 3
  /\ outcome = Return("a\nb")

C3_Original ==
  outcome.exc.kind = "TimeoutError" => lastAct = "get" /\ NonTerminalObserved

\* C4: extract_from_task is invoked exactly when a tasks/get response carries
\* a terminal state; after any other state value, or a missing status or
\* state, the loop sleeps poll_interval_s and evaluates the loop condition
\* again, and a call whose latest response was non-terminal ends only with
\* the timeout.
C4_TwoStates ==
  /\ [](interpreter = "task" <=> TerminalObserved)
  /\ [](NonTerminalObserved /\ lastAct = "get" => pc = "sleep" /\ outcome = NoOutcome)
  /\ [][pc = "sleep" => pc' = "loop" /\ now' = now + poll_interval_s /\ ~Posts]_vars
  /\ [](NonTerminalObserved /\ pc \in {"done", "idle"} => outcome.exc.kind = "TimeoutError")

C4_Witness ==
  /\ pc = "done"
  /\ NonTerminalObserved
  /\ task.status.tag = "absent"
  /\ task.artifacts.tag = "list"
  /\ outcome.exc.kind = "TimeoutError"
  /\ Len(sent) >= 3

\* C5: a message/send result whose kind is not "task" (absent included) is
\* handed to extract_from_message, whose outcome is the outcome of
\* send_prompt, and no tasks/get is posted; polling is entered only for
\* kind = "task".
C5_MessageShortCircuit ==
  /\ (Returned /\ result.tag = "dict" /\ result.kind # "task" =>
        /\ outcome = leave(_extract_text_from_message(result))
        /\ interpreter = "message"
        /\ Len(sent) = 1)
  /\ (Polling \/ (sent # << >> /\ Last(sent).method = "tasks/get") =>
        result.tag = "dict" /\ result.kind = "task")

C5_Witness ==
  /\ pc = "done"
  /\ result.tag = "dict"
  /\ result.kind = NoKey
  /\ result.parts = PartList(<< TextPart("hi") >>)
  /\ outcome = Return("hi")
  /\ Len(sent) = 1

\* C6: within one send_prompt call the k-th request carries id k: the first
\* is message/send with id 1, every later one is a tasks/get.
C6_IdsWithinCall ==
  \A k \in 1..Len(sent) :
    /\ sent[k].id = k
    /\ sent[k].method = (IF k = 1 THEN "message/send" ELSE "tasks/get")

C6_Witness ==
  /\ call >= 2
  /\ Len(sent) >= 4
  /\ Last(sent).method = "tasks/get"
  /\ Last(sent).id = 4

\* C7 as stated: over the whole client session every request id is strictly
\* greater than every id issued earlier.
C7_Original ==
  /\ \A i, j \in 1..Len(sent) : i < j => sent[i].id < sent[j].id
  /\ \A e \in earlier : \A j \in 1..Len(sent) : e.id < sent[j].id

\* C7 (amended): request ids are strictly increasing within one send_prompt
\* call only; every call starts again at id 1, so ids repeat across the calls
\* of one client.
C7_IdsPerCall ==
  /\ \A i, j \in 1..Len(sent) : i < j => sent[i].id < sent[j].id
  /\ Len(sent) >= 1 => sent[1].id = 1

C7_Witness ==
  /\ call >= 2
  /\ Len(sent) >= 2
  /\ \E e \in earlier : e.id = Last(sent).id /\ e.method = "tasks/get"

\* C8: every send_prompt call posts message/send exactly once, as its first
\* request; after a failed RPC call nothing more is posted; a tasks/get is
\* posted only when the previous RPC call succeeded, and after a tasks/get
\* only when that one returned a non-terminal task.
C8_NoRetry ==
  /\ [](/\ Cardinality({k \in 1..Len(sent) : sent[k].method = "message/send"}) <= 1
        /\ (call >= 1 /\ pc # "send" => Len(sent) >= 1 /\ sent[1].method = "message/send"))
  /\ [][FailedReply => ~Posts]_vars
  /\ [][PostsGet => ~FailedReply /\ (Last(sent).method = "tasks/get" => NonTerminalObserved)]_vars

C8_Witness ==
  /\ pc = "done"
  /\ FailedReply
  /\ reply.net = "ok"
  /\ reply.body.hasError
  /\ Last(sent).method = "tasks/get"
  /\ Len(sent) >= 3

\* C9: a failure raised inside send_prompt by the transport, the interpreter
\* or the polling loop is what the caller gets, kind and payload unchanged;
\* a normal return happens only when nothing was raised.
C9_FailuresPropagate ==
  Returned =>
    /\ (raised # NoExc => outcome = Raise(raised))
    /\ (raised = NoExc => outcome.how = "return")
    /\ (reply.net \in {"ConnectionError", "Timeout"} => outcome = Raise(Exc(reply.net, "", 0)))
    /\ (reply.net = "ok" /\ reply.status >= 400 =>
          outcome = Raise(Exc("HTTPError", "", reply.status)))
    /\ (checked = "failed" => outcome = Raise(Exc("TimeoutError", task_id, timeout_s)))
    /\ (TerminalObserved /\ task.status.state = "canceled" =>
          outcome = Raise(Exc("ValueError", "Task was canceled", 0)))

C9_Witness ==
  /\ pc = "done"
  /\ interpreter = "task"
  /\ raised = Exc("ValueError", "Task failed: boom", 0)
  /\ outcome = Raise(raised)

\* C10 as stated: every non-2xx status fails with an HTTP error, and a result
\* is returned only for a 2xx response without an error field.
C10_Original ==
  pc = "rpc_done" /\ reply.net = "ok" =>
    /\ (reply.status \notin 200..299 => outcome = Raise(Exc("HTTPError", "", reply.status)))
    /\ (outcome.how = "return" => reply.status \in 200..299 /\ ~reply.body.hasError)

\* C10 (amended): a 4xx or 5xx status fails with an HTTP error whatever the
\* body; otherwise a JSON body with an error field fails with a protocol
\* error carrying the error payload, also when a result is present;
\* otherwise the result field is returned.  A result is returned only for a
\* response whose status is not 4xx/5xx and whose body has no error field.
C10_Classification ==
  pc = "rpc_done" /\ reply.net = "ok" =>
    /\ (reply.status \in 400..599 => outcome = Raise(Exc("HTTPError", "", reply.status)))
    /\ (reply.status \notin 400..599 /\ reply.body.json /\ reply.body.hasError =>
          outcome = Raise(Exc("RuntimeError", "JSON-RPC error: " \o reply.body.error, 0)))
    /\ (reply.status \notin 400..599 /\ reply.body.json /\ ~reply.body.hasError
          /\ reply.body.hasResult => outcome = ReturnValue(reply.body.result))
    /\ (outcome.how = "return" =>
          reply.status \notin 400..599 /\ reply.body.json /\ ~reply.body.hasError)

C10_Witness ==
  /\ pc = "rpc_done"
  /\ reply.net = "ok"
  /\ reply.status = 200
  /\ reply.body.hasError
  /\ reply.body.hasResult
  /\ outcome = Raise(Exc("RuntimeError", "JSON-RPC error: {'code': -32000}", 0))

\* a JSON-RPC exchange that came back 2xx with a JSON body holding neither
\* a result nor an error
MalformedReply == Response(200, Body(FALSE, "", FALSE, NoObj))

\* C11 as stated: a 2xx JSON-RPC response with neither a result nor an error
\* field reaches the caller of send_prompt as an extraction failure, the
\* failure kind raised when no text can be extracted from a message or task
\* (ValueError).
C11_Original ==
  Returned /\ reply = MalformedReply /\ lastAct \in {"send", "get"} =>
    outcome.how = "raise" /\ outcome.exc.kind = "ValueError"

\* C12: extract_from_task looks at status.state before any text extraction:
\* failed always fails with a task-failure error carrying status.error (a
\* generic text when it is absent), canceled with a cancellation error,
\* rejected with a rejection error; in these states no text is ever
\* returned, whatever artifacts or result the task carries.
C12_StateFirst ==
  pc = "task" /\ call >= 1 =>
    /\ (task.status.state = "failed" /\ task.status.error # NoKey =>
          outcome = Raise(Exc("ValueError", "Task failed: " \o task.status.error, 0)))
    /\ (task.status.state = "failed" /\ task.status.error = NoKey =>
          outcome = Raise(Exc("ValueError", "Task failed: Unknown error", 0)))
    /\ (task.status.state = "canceled" =>
          outcome = Raise(Exc("ValueError", "Task was canceled", 0)))
    /\ (task.status.state = "rejected" =>
          outcome = Raise(Exc("ValueError", "Task was rejected", 0)))
    /\ (task.status.state \in {"failed", "canceled", "rejected"} => outcome.how # "return")

C12_Witness ==
  /\ pc = "task"
  /\ call >= 1
  /\ task.status = Status("failed", "boom")
  /\ Len(ArtifactTexts(task)) > 0
  /\ task.result.tag = "dict" /\ task.result.text.tag = "str"
  /\ outcome = Raise(Exc("ValueError", "Task failed: boom", 0))

\* the outcome C13 describes: the first of the sources (a)-(d) that yields
\* text, an extraction error when none does
C13_Precedence(t) ==
  IF Len(ArtifactTexts(t)) > 0 THEN Return(Join(ArtifactTexts(t)))
  ELSE IF /\ t.result.tag = "dict"
          /\ t.result.message.tag # "absent"
          /\ _extract_text_from_message(t.result.message).how = "return"
  THEN _extract_text_from_message(t.result.message)
  ELSE IF t.result.tag = "dict" /\ t.result.text.tag # "absent" THEN Return(Str(t.result.text))
  ELSE IF t.result.tag = "dict" /\ t.result.content.tag # "absent"
  THEN Return(Str(t.result.content))
  ELSE IF t.result.tag = "str" THEN Return(t.result.v)
  ELSE Raise(Exc("ValueError", "Could not extract text from task result", 0))

\* C13 as stated: for a completed task the text comes from (a) the first
\* artifact's text parts, (b) else result.message through
\* extract_from_message, (c) else result.text, else result.content, (d) else
\* a plain-string result; a later source is used when every earlier one
\* yields nothing, and the call fails only when all of them are exhausted.
C13_Original ==
  pc = "task" /\ call >= 1 /\ task.status.state = "completed" =>
    /\ outcome.how = C13_Precedence(task).how
    /\ outcome.text = C13_Precedence(task).text

\* C14: extract_from_message returns the texts of exactly the parts of kind
\* "text" with a non-empty text, in their order, joined by a newline; with
\* no such part the content field stringified; with neither it fails with
\* an extraction error; repeating it on the same message gives the same
\* outcome and leaves the message as it was.
C14_TextOf(parts) ==
  LET kept == SelectSeq(parts.items,
                        LAMBDA p : p.kind = "text" /\ p.text # NoKey /\ p.text # "")
  IN  [i \in 1..Len(kept) |-> kept[i].text]

C14_MessageText ==
  /\ [](pc = "message" /\ call >= 1 =>
          IF Len(C14_TextOf(result.parts)) > 0
          THEN outcome = Return(Join(C14_TextOf(result.parts)))
          ELSE IF result.content.tag # "absent"
          THEN outcome = Return(Str(result.content))
          ELSE outcome = Raise(Exc("ValueError", "Could not extract text from message", 0)))
  /\ [][pc = "message" /\ call >= 1 /\ call' > call => outcome' = outcome /\ result' = result]_vars

C14_Witness ==
  /\ pc = "message"
  /\ call = MaxRepeats
  /\ result.parts = PartList(<< TextPart("b"), TextPart(""), TextPart("a") >>)
  /\ result.content = StrVal("c")
  /\ outcome = Return("b\na")

\* tasks/get calls issued so far by the current send_prompt call
Gets == Cardinality({ k \in 1..Len(sent) : sent[k].method = "tasks/get" })

\* C15: against a task that never reaches a terminal state, with RPC calls
\* of negligible duration, send_prompt ends only in a timeout failure; with
\* timeout = 1s and poll_interval = 0.1s it does so about 1s after polling
\* began (within one poll interval) after at least 9 and at most 11
\* tasks/get calls; in general the number of tasks/get calls is at most
\* timeout / poll_interval + 1.
C15_PollCount ==
  /\ (pc \in {"done", "idle"} /\ call >= 1 => outcome.exc.kind = "TimeoutError")
  /\ (pc \in {"done", "idle"} /\ call >= 1 /\ timeout_s = 10 /\ poll_interval_s = 1 =>
        /\ Gets \in 9..11
        /\ Elapsed \in (timeout_s - poll_interval_s)..(timeout_s + poll_interval_s))
  /\ (call >= 1 => Gets * poll_interval_s <= timeout_s + poll_interval_s)

C15_Witness ==
  /\ pc = "done"
  /\ timeout_s = 10
  /\ poll_interval_s = 1
  /\ outcome = Raise(Exc("TimeoutError", "t1", 10))
  /\ Gets = 10
  /\ Elapsed = 10

\* every request this client has posted, in earlier calls and the current one
Posted == earlier \cup { sent[k] : k \in 1..Len(sent) }

\* C16: the RPC URL of a client is resolved once, at construction, with at
\* most one discovery fetch, and never changes afterwards: every
\* message/send and tasks/get of every send_prompt call is posted to it, and
\* no send_prompt call fetches the agent card again.
C16_UrlFixed ==
  /\ [](fetches <= 1)
  /\ [](pc = "new" => fetches = 0 /\ Posted = {})
  /\ [](\A q \in Posted : q.url = rpc_url)
  /\ [][pc # "new" => rpc_url' = rpc_url /\ fetches' = fetches /\ card' = card]_vars

C16_Witness ==
  /\ call = MaxCalls
  /\ fetches = 1
  /\ rpc_url = << "http://g", Slash, "r" >>
  /\ \E q \in earlier : q.method = "tasks/get" /\ q.url = rpc_url
  /\ Len(sent) >= 2
  /\ sent[2].url = rpc_url

\* the constructor has run
Constructed == pc \in {"idle", "init_failed"}
\* the agent-card fetch failed: network error, HTTP error status, unparsable
\* body, or a document of unexpected shape
DiscoveryFailed ==
  \/ card.net \notin {"ok", "none"}
  \/ card.net = "ok" /\ card.status \in 400..599
  \/ card.net = "ok" /\ card.shape # "dict"
  \/ card.net = "ok" /\ card.shape = "dict" /\ card.url.tag = "num"
\* a string without its trailing slashes
NoTrailingSlash(str) ==
  LET keep == { k \in 0..Len(str) :
                  /\ (k > 0 => str[k] # Slash)
                  /\ \A j \in (k + 1)..Len(str) : str[j] = Slash }
  IN  SubSeq(str, 1, CHOOSE k \in keep : TRUE)
\* a string without its surrounding whitespace
Trimmed(str) ==
  LET ink == { k \in 1..Len(str) : str[k] # Space }
  IN  IF ink = {} THEN << >>
      ELSE SubSeq(str, CHOOSE k \in ink : \A j \in ink : k <= j,
                       CHOOSE k \in ink : \A j \in ink : k >= j)
\* the configured path with a leading slash enforced, "/" when it is empty
LeadingSlash(path) ==
  IF path = << >> THEN << Slash >>
  ELSE IF path[1] = Slash THEN path
  ELSE << Slash >> \o path
\* the path component of a service URL, as the claims speak of it
PathOf(url) ==
  LET rest == IF Len(url) > 0 /\ url[1] \in Authorities THEN Tail(url) ELSE url
      stop == { k \in 1..Len(rest) : rest[k] = Query }
  IN  IF stop = {} THEN rest ELSE SubSeq(rest, 1, (CHOOSE k \in stop : TRUE) - 1)
\* the card was fetched and is a document with a string url
CardUrl == card.net = "ok" /\ card.status \notin 400..599 /\ card.shape = "dict" /\ card.url.tag = "str"

\* C17: discovery failure never aborts construction: whatever way the
\* agent-card fetch fails, the constructor completes without raising and
\* the RPC URL is base_url without its trailing slash followed by the
\* normalized configured path.
C17_DiscoveryFallback ==
  /\ pc # "init_failed"
  /\ (Constructed /\ DiscoveryFailed =>
        pc = "idle" /\ rpc_url = NoTrailingSlash(base_url) \o LeadingSlash(Trimmed(endpoint_path)))

C17_Witness ==
  /\ pc = "idle"
  /\ card = CardResponse(200, "list", NoUrl)
  /\ base_url = << "http://h", Slash, "a", Slash >>
  /\ endpoint_path = << "v" >>
  /\ rpc_url = << "http://h", Slash, "a", Slash, "v" >>

\* C18: for a fetched discovery document whose url has a path that is
\* present and not the root path, the RPC URL is that url without its
\* trailing slashes, whatever the configured endpoint path and base_url.
C18_ServicePath ==
  Constructed /\ CardUrl /\ PathOf(card.url.v) \notin {<< >>, << Slash >>} =>
    pc = "idle" /\ rpc_url = NoTrailingSlash(card.url.v)

C18_Witness ==
  /\ pc = "idle"
  /\ card.url = StrUrl(<< "http://g", Slash, "r", Slash >>)
  /\ endpoint_path = << Slash, "v" >>
  /\ rpc_url = << "http://g", Slash, "r" >>

\* C19 as stated: a document url with no path or only the root path gives
\* that url without its trailing slash plus the normalized configured path;
\* an absent url gives base_url without its trailing slash plus the
\* normalized path; the normalized path is the configured path with a
\* leading slash enforced, "/" when the configured path is empty.
C19_Original ==
  /\ (Constructed /\ CardUrl /\ PathOf(card.url.v) \in {<< >>, << Slash >>} =>
        rpc_url = NoTrailingSlash(card.url.v) \o LeadingSlash(endpoint_path))
  /\ (Constructed /\ card.net = "ok" /\ card.shape = "dict" /\ card.url.tag = "absent" =>
        rpc_url = NoTrailingSlash(base_url) \o LeadingSlash(endpoint_path))

\* C19 (amended): the normalized path is the configured path with its
\* surrounding whitespace removed and then a leading slash enforced, "/"
\* when nothing is left.  A non-empty document url with no path or only the
\* root path gives that url without its trailing slashes plus the
\* normalized path; an absent, null or empty url gives base_url without its
\* trailing slashes plus the normalized path.
C19_BuiltUrl ==
  /\ (Constructed /\ CardUrl /\ card.url.v # << >>
        /\ PathOf(card.url.v) \in {<< >>, << Slash >>} =>
        rpc_url = NoTrailingSlash(card.url.v) \o LeadingSlash(Trimmed(endpoint_path)))
  /\ (Constructed /\ card.net = "ok" /\ card.status \notin 400..599 /\ card.shape = "dict"
        /\ (card.url.tag \in {"absent", "null"} \/ card.url = StrUrl(<< >>)) =>
        rpc_url = NoTrailingSlash(base_url) \o LeadingSlash(Trimmed(endpoint_path)))

C19_Witness ==
  /\ pc = "idle"
  /\ card.url = StrUrl(<< "http://g", Slash >>)
  /\ endpoint_path = << Space, "v", Space >>
  /\ rpc_url = << "http://g", Slash, "v" >>

\* C20 as stated: Runner.run always hands an exit code back to its caller,
\* on every path through initialization, the task loop and the telemetry
\* shutdown: 0 if at least one processed task succeeded, 1 if none did
\* (an empty dataset included) or a fatal error occurred.
C20_Original ==
  run_pc = "finished" =>
    /\ run_outcome.how = "return"
    /\ run_outcome.code \in {0, 1}
    /\ (run_outcome.code = 0 => \E k \in 1..Len(results) : results[k].success)

\* the task ids of the recorded results, in order
ResultIds == [k \in 1..Len(results) |-> results[k].task_id]
\* process_task is at work on a task, or its result is about to be added
InTask == run_pc \in {"task", "build", "send", "success", "except", "exit", "add"}

\* C21: tasks are processed one at a time in dataset order; with
\* abort_on_failure set no task is processed after the first failed one,
\* whose result is still recorded and the summary still printed; with it
\* unset a failed task never stops the loop and every enumerated task gets
\* exactly one recorded result.
C21_SequentialLoop ==
  /\ [](\A k \in 1..Len(enumerated) : enumerated[k] = k)
  /\ [](IF InTask
        THEN /\ current.task_id = Last(enumerated)
             /\ ResultIds = SubSeq(enumerated, 1, Len(enumerated) - 1)
        ELSE ResultIds = enumerated)
  /\ [](abort_on_failure =>
          /\ \A k \in 1..(Len(results) - 1) : results[k].success
          /\ (InTask => \A k \in 1..Len(results) : results[k].success))
  /\ [](abort_on_failure /\ run_pc = "finished" /\ Len(results) > 0
          /\ ~Last(results).success => printed)
  /\ [][run_pc = "add" /\ ~abort_on_failure => run_pc' = "loop"]_vars
  /\ [](~abort_on_failure /\ run_pc = "summary" => dataset = << >>)

C21_Witness ==
  /\ abort_on_failure
  /\ run_pc = "finished"
  /\ Len(results) = 2
  /\ results[1].success
  /\ ~results[2].success
  /\ dataset # << >>
  /\ Head(dataset).event = "task"
  /\ printed

\* record_success / record_failure calls made for task id
RecordsOf(id) == { k \in 1..Len(recorded) : recorded[k].task_id = id }

\* C22: process_task turns every failure of prompt building or send_prompt
\* into a returned TaskResult with success = FALSE instead of raising; for
\* each task exactly one of record_success / record_failure is invoked,
\* agreeing with TaskResult.success; the in-flight gauge raised on entering
\* the task span is lowered on every exit, so it is back at its previous
\* value after each task.
C22_TaskResult ==
  /\ [][(run_pc \in {"build", "send"}) => (run_pc' \in {"send", "success", "except"})]_vars
  /\ [][run_pc = "except" => run_pc' = "exit" /\ ~task_result'.success]_vars
  /\ [](run_pc = "add" =>
          /\ task_result.task_id = current.task_id
          /\ task_result.success = (caught = NoExc)
          /\ Cardinality(RecordsOf(current.task_id)) = 1
          /\ (Last(recorded).status = "success") = task_result.success)
  /\ [](\A k \in 1..Len(results) :
          /\ RecordsOf(results[k].task_id) = {k}
          /\ (recorded[k].status = "success") = results[k].success)
  /\ [](inflight = IF run_pc \in {"build", "send", "success", "except", "exit"} THEN 1 ELSE 0)

C22_Witness ==
  /\ run_pc = "add"
  /\ caught.kind = "TimeoutError"
  /\ task_result = TaskResult(2, FALSE, "TimeoutError: ")
  /\ recorded = << [task_id |-> 1, status |-> "success"], [task_id |-> 2, status |-> "failed"] >>
  /\ inflight = 0

\* C23: the deadline is fixed when polling is entered, after message/send
\* has returned, and governs only whether a new tasks/get is started: a
\* tasks/get started before the deadline that returns a terminal state after
\* the deadline has passed still determines the outcome (text or task
\* failure), so a timeout is never reported for a task whose terminal state
\* the client has observed.
C23_LateTerminalWins ==
  /\ [][pc = "send" /\ pc' = "loop" => deadline' = now' + timeout_s]_vars
  /\ [][Polling => deadline' = deadline]_vars
  /\ [][PostsGet => now < deadline]_vars
  /\ [][PostsGet /\ TerminalObserved' =>
          pc' = "done" /\ outcome' = _extract_text_from_task(task')]_vars
  /\ [](TerminalObserved /\ now >= deadline => outcome.exc.kind # "TimeoutError")

C23_Witness ==
  /\ pc = "done"
  /\ lastAct = "get"
  /\ TerminalObserved
  /\ task.status.state = "completed"
  /\ now >= deadline
  /\ Elapsed > 0
  /\ outcome = Return("r")

====
